---------------------------- MODULE Spec2Model ----------------------------
(* Model of the command-output records of OpenHands:                       *)
(*   openhands/events/observation/commands.py  (metadata codec, truncator, *)
(*       single-command and batch result records)                          *)
(*   openhands/events/action/commands.py       (ParallelCmdRunAction)      *)
(*   openhands/agenthub/codeact_agent/tools/parallel_bash.py (tool schema) *)
(* Text is a sequence of one-character strings.  Python values are tagged  *)
(* records [t |-> type, v |-> payload].                                    *)
EXTENDS Integers, Sequences, FiniteSets, TLC

VARIABLES
    \* --- Output Truncator (_maybe_truncate called as a function) ---
    t_pc,        \* "call" before the call, "done" after it
    t_content,   \* the content argument
    t_max,       \* the max_size argument
    t_out,       \* the returned text
    \* --- Metadata Protocol Codec (matches_ps1_metadata, then from_ps1_match) ---
    c_pc,        \* "scan": in the finditer loop, "parse": caller parses, "done"
    c_text,      \* the raw terminal text, a sequence of tokens
    c_pos,       \* where the regex iterator continues (1-based token index)
    c_matches,   \* the list `matches` built by matches_ps1_metadata
    c_parsed,    \* outcome of from_ps1_match for each returned match so far
    \* --- objects: metadata and result records ---
    h_metas,     \* the CmdOutputMetadata objects; an object's identity is its index
    h_results,   \* the result objects (ParallelCmdResult, CmdOutputObservation);
                 \* each refers to its metadata object by index
    h_obs,       \* the ParallelCmdOutputObservation built last, or NoObs
    h_last,      \* the last call made and its outcome
    \* --- Parallel Orchestrator running one ParallelCmdRunAction ---
    o_pc,        \* "idle", "new" (action built), "rejected", "running", "done", "raised"
    o_action,    \* the ParallelCmdRunAction, or NoAction
    o_st,        \* per command: "queued", "running" or "done"
    o_slots,     \* per command: index of its result object, 0 while empty
    o_fate,      \* per command: "none", "exited", "timeout" or "startfail"
    o_admitted,  \* command indices in the order they were admitted
    o_finished   \* command indices in the order they finished

truncVars == <<t_pc, t_content, t_max, t_out>>
codecVars == <<c_pc, c_text, c_pos, c_matches, c_parsed>>

heapVars == <<h_metas, h_results, h_obs, h_last>>
orchVars == <<o_pc, o_action, o_st, o_slots, o_fate, o_admitted, o_finished>>

vars == <<t_pc, t_content, t_max, t_out,
          c_pc, c_text, c_pos, c_matches, c_parsed,
          h_metas, h_results, h_obs, h_last,
          o_pc, o_action, o_st, o_slots, o_fate, o_admitted, o_finished>>

-----------------------------------------------------------------------------
(* Bounds of the model.                                                    *)

\* longest content handed to _maybe_truncate
MaxContentLen == 5
\* largest max_size handed to _maybe_truncate
MaxSizeArg == 4
\* number of segments a raw terminal text is assembled from
MaxSegments == 3
\* longest command list of a batch
MaxCommands == 3
\* largest max_concurrency a tool call passes explicitly
MaxConcurrencyArg == 2
\* number of CmdOutputMetadata objects alive at once
MaxMetas == 2
\* number of result objects alive at once
MaxResults == 2
\* longest results list handed to ParallelCmdOutputObservation
MaxBatch == 2

-----------------------------------------------------------------------------
(* Sequences and Python slicing.                                           *)

Min(a, b) == IF a <= b THEN a ELSE b
Max(a, b) == IF a >= b THEN a ELSE b

\* all sequences over S of length 0..n
SeqsUpTo(S, n) == UNION {[1..k -> S] : k \in 0..n}

\* Python's s[start:stop] for arbitrary integers: a negative index counts
\* from the end, and both are clamped to 0..len(s).
PyIndex(n, i) == IF i < 0 THEN Max(n + i, 0) ELSE Min(i, n)
PySlice(s, start, stop) ==
    SubSeq(s, PyIndex(Len(s), start) + 1, PyIndex(Len(s), stop))
\* s[:stop]
PySliceTo(s, stop) == PySlice(s, 0, stop)
\* s[start:]
PySliceFrom(s, start) == PySlice(s, start, Len(s))

-----------------------------------------------------------------------------
(* Output Truncator: CmdOutputObservation._maybe_truncate.                 *)

MAX_CMD_OUTPUT_SIZE == 30000

\* '\n[... Observation truncated due to length ...]\n'
TRUNCATION_MARKER ==
    <<"\n", "[", ".", ".", ".", " ", "O", "b", "s", "e", "r", "v", "a", "t",
      "i", "o", "n", " ", "t", "r", "u", "n", "c", "a", "t", "e", "d", " ",
      "d", "u", "e", " ", "t", "o", " ", "l", "e", "n", "g", "t", "h", " ",
      ".", ".", ".", "]", "\n">>

maybe_truncate(content, max_size) ==
    IF Len(content) <= max_size
    THEN content
    ELSE LET half == max_size \div 2
         IN  PySliceTo(content, half) \o TRUNCATION_MARKER
                 \o PySliceFrom(content, -half)

ContentChars == {"a", "b"}

TruncIdle ==
    /\ t_pc = "idle"
    /\ t_content = <<>>
    /\ t_max = 0
    /\ t_out = <<>>

TruncInit ==
    /\ t_pc = "call"
    /\ t_content \in SeqsUpTo(ContentChars, MaxContentLen)
    /\ t_max \in 0..MaxSizeArg
    /\ t_out = <<>>

Truncate ==
    /\ t_pc = "call"
    /\ t_out' = maybe_truncate(t_content, t_max)
    /\ t_pc' = "done"
    /\ UNCHANGED <<t_content, t_max>>
    /\ UNCHANGED <<codecVars, heapVars, orchVars>>

-----------------------------------------------------------------------------
(* Python values.  A value is [t |-> type, v |-> payload]:                 *)
(*   int: an integer; str: a sequence of characters; none: None;           *)
(*   list: a sequence of values; dict: a function from key names to values *)

PInt(n) == [t |-> "int", v |-> n]
PStr(s) == [t |-> "str", v |-> s]
PNone == [t |-> "none", v |-> 0]
PList(s) == [t |-> "list", v |-> s]
PDict(m) == [t |-> "dict", v |-> m]

IsInt(x) == x.t = "int"
\* Python's == on the modelled values (values of different types differ)
PyEq(x, y) == x.t = y.t /\ x.v = y.v

DigitChar == <<"0", "1", "2", "3", "4", "5", "6", "7", "8", "9">>
Digits == {DigitChar[i] : i \in 1..10}
DigitVal(c) == CHOOSE d \in 0..9 : DigitChar[d + 1] = c

RECURSIVE NatToStr(_)
NatToStr(n) ==
    IF n < 10 THEN <<DigitChar[n + 1]>>
    ELSE NatToStr(n \div 10) \o <<DigitChar[(n % 10) + 1]>>

\* str(n) for an int
IntToStr(n) == IF n < 0 THEN <<"-">> \o NatToStr(-n) ELSE NatToStr(n)

RECURSIVE DigitsToNat(_)
DigitsToNat(s) ==
    IF s = <<>> THEN 0
    ELSE 10 * DigitsToNat(SubSeq(s, 1, Len(s) - 1)) + DigitVal(s[Len(s)])

\* str(x) as from_ps1_match applies it to a pid or exit_code value
py_str(x) ==
    CASE x.t = "int" -> IntToStr(x.v)
      [] x.t = "str" -> x.v
      [] x.t = "none" -> <<"N", "o", "n", "e">>
      [] x.t = "list" /\ x.v = <<>> -> <<"[", "]">>

WhiteChars == {" ", "\n", "\t"}

RECURSIVE LStripChars(_)
LStripChars(s) ==
    IF s # <<>> /\ s[1] \in WhiteChars THEN LStripChars(Tail(s)) ELSE s
RECURSIVE RStripChars(_)
RStripChars(s) ==
    IF s # <<>> /\ s[Len(s)] \in WhiteChars
    THEN RStripChars(SubSeq(s, 1, Len(s) - 1)) ELSE s

LowerChar(c) ==
    CASE c = "I" -> "i" [] c = "N" -> "n" [] c = "F" -> "f"
      [] c = "T" -> "t" [] c = "Y" -> "y" [] c = "A" -> "a"
      [] OTHER -> c

\* float(s) of a text: surrounding whitespace is dropped, then an optional
\* sign, then inf / infinity / nan (any case) or a decimal numeral with at
\* least one digit and at most one point.  (Exponents and digit-group
\* underscores are not modelled; no modelled text has them.)
\* Result: kind "err" is ValueError; "inf", "nan"; "fin" carries the sign
\* and the integer part of the magnitude.
py_float(text) ==
    LET s == RStripChars(LStripChars(text))
        signed == s # <<>> /\ s[1] \in {"+", "-"}
        neg == s # <<>> /\ s[1] = "-"
        body == IF signed THEN Tail(s) ELSE s
        low == [i \in 1..Len(body) |-> LowerChar(body[i])]
        points == {i \in 1..Len(body) : body[i] = "."}
        numeral == /\ \A i \in 1..Len(body) : body[i] \in Digits \cup {"."}
                   /\ Cardinality(points) <= 1
                   /\ \E i \in 1..Len(body) : body[i] \in Digits
        intDigits == IF points = {} THEN body
                     ELSE SubSeq(body, 1, (CHOOSE i \in points : TRUE) - 1)
    IN  IF low \in {<<"i", "n", "f">>,
                    <<"i", "n", "f", "i", "n", "i", "t", "y">>}
        THEN [kind |-> "inf", neg |-> neg, int |-> 0]
        ELSE IF low = <<"n", "a", "n">>
        THEN [kind |-> "nan", neg |-> neg, int |-> 0]
        ELSE IF numeral
        THEN [kind |-> "fin", neg |-> neg, int |-> DigitsToNat(intDigits)]
        ELSE [kind |-> "err", neg |-> neg, int |-> 0]

\* try: int(float(str(x))) except (ValueError, TypeError): -1
\* int() truncates toward zero; int(nan) is a ValueError (caught), int(inf)
\* is an OverflowError (not caught).
coerce_numeric(x) ==
    LET f == py_float(py_str(x))
    IN  CASE f.kind = "inf" -> [raised |-> "OverflowError", val |-> x]
          [] f.kind \in {"nan", "err"} -> [raised |-> "", val |-> PInt(-1)]
          [] f.kind = "fin" ->
                [raised |-> "", val |-> PInt(IF f.neg THEN -f.int ELSE f.int)]

-----------------------------------------------------------------------------
(* CmdOutputMetadata: the pydantic model and its validation.               *)

IntFields == {"exit_code", "pid"}
OptStrFields == {"username", "hostname", "working_dir", "py_interpreter_path"}
StrFields == {"prefix", "suffix"}
MetaFields == IntFields \cup OptStrFields \cup StrFields

\* the field defaults of class CmdOutputMetadata
DefaultMetadata ==
    [f \in MetaFields |->
        IF f \in IntFields THEN PInt(-1)
        ELSE IF f \in OptStrFields THEN PNone
        ELSE PStr(<<>>)]

\* a text pydantic accepts for an int field: an optional sign and digits
IsIntLiteral(s) ==
    LET body == IF s # <<>> /\ s[1] \in {"+", "-"} THEN Tail(s) ELSE s
    IN  body # <<>> /\ \A i \in 1..Len(body) : body[i] \in Digits

IntLiteralVal(s) ==
    LET body == IF s[1] \in {"+", "-"} THEN Tail(s) ELSE s
    IN  IF s[1] = "-" THEN -DigitsToNat(body) ELSE DigitsToNat(body)

\* does pydantic accept value x for field f
FieldAccepts(f, x) ==
    IF f \in IntFields THEN x.t = "int" \/ (x.t = "str" /\ IsIntLiteral(x.v))
    ELSE IF f \in OptStrFields THEN x.t \in {"str", "none"}
    ELSE x.t = "str"

\* the value pydantic stores for field f given x (lax mode: digit text -> int)
FieldStore(f, x) ==
    IF f \in IntFields /\ x.t = "str" THEN PInt(IntLiteralVal(x.v)) ELSE x

\* CmdOutputMetadata(**d): d maps key names to values.  Unknown keys are
\* ignored, absent fields take their defaults, a value of the wrong type
\* raises ValidationError.
CmdOutputMetadataNew(d) ==
    IF \A f \in MetaFields \cap DOMAIN d : FieldAccepts(f, d[f])
    THEN [raised |-> "",
          meta |-> [f \in MetaFields |->
                       IF f \in DOMAIN d THEN FieldStore(f, d[f])
                       ELSE DefaultMetadata[f]]]
    ELSE [raised |-> "ValidationError", meta |-> DefaultMetadata]

\* d with key k set to x
DictSet(d, k, x) == [j \in DOMAIN d \cup {k} |-> IF j = k THEN x ELSE d[j]]

\* CmdOutputMetadata.from_ps1_match, given what json.loads(match.group(1))
\* returned.  A non-dict value has no .copy() (AttributeError) or cannot be
\* splatted into the constructor (TypeError for a list).
from_ps1_match_value(loaded) ==
    IF loaded.t \in {"none", "str", "int"}
    THEN [raised |-> "AttributeError", meta |-> DefaultMetadata]
    ELSE IF loaded.t = "list"
    THEN [raised |-> "TypeError", meta |-> DefaultMetadata]
    ELSE LET metadata == loaded.v
             cp == IF "pid" \in DOMAIN metadata
                   THEN coerce_numeric(metadata["pid"])
                   ELSE [raised |-> "", val |-> PNone]
             ce == IF "exit_code" \in DOMAIN metadata
                   THEN coerce_numeric(metadata["exit_code"])
                   ELSE [raised |-> "", val |-> PNone]
             p1 == IF "pid" \in DOMAIN metadata
                   THEN DictSet(metadata, "pid", cp.val) ELSE metadata
             processed == IF "exit_code" \in DOMAIN metadata
                          THEN DictSet(p1, "exit_code", ce.val) ELSE p1
         IN  IF cp.raised # ""
             THEN [raised |-> cp.raised, meta |-> DefaultMetadata]
             ELSE IF ce.raised # ""
             THEN [raised |-> ce.raised, meta |-> DefaultMetadata]
             ELSE CmdOutputMetadataNew(processed)

-----------------------------------------------------------------------------
(* Result records.  A heap H is [metas, results]: the metadata objects and *)
(* the result objects built so far.  A result holds the index of its       *)
(* metadata object, so two results given the same object share it.         *)

\* the metadata argument of a result constructor
ArgNone == [k |-> "none", d |-> <<>>, id |-> 0]
ArgDict(d) == [k |-> "dict", d |-> d, id |-> 0]
ArgObj(id) == [k |-> "obj", d |-> <<>>, id |-> id]

\* no keyword arguments
NoKwargs == <<>>

\* if isinstance(metadata, dict): CmdOutputMetadata(**metadata)
\* else: metadata or CmdOutputMetadata()
ResolveMetadata(H, marg) ==
    CASE marg.k = "dict" ->
            LET r == CmdOutputMetadataNew(marg.d)
            IN  IF r.raised # ""
                THEN [raised |-> r.raised, heap |-> H, id |-> 0]
                ELSE [raised |-> "",
                      heap |-> [H EXCEPT !.metas = Append(@, r.meta)],
                      id |-> Len(H.metas) + 1]
      [] marg.k = "obj" -> [raised |-> "", heap |-> H, id |-> marg.id]
      [] marg.k = "none" ->
            [raised |-> "",
             heap |-> [H EXCEPT !.metas = Append(@, DefaultMetadata)],
             id |-> Len(H.metas) + 1]

\* if 'exit_code' in kwargs: self.metadata.exit_code = kwargs['exit_code']
\* if <pidKey> in kwargs:    self.metadata.pid = kwargs[<pidKey>]
\* plain attribute assignment on the metadata object the result refers to
\* (the pydantic model does not validate assignments)
ApplyOverrides(H, id, kw, pidKey) ==
    LET m0 == H.metas[id]
        m1 == IF "exit_code" \in DOMAIN kw
              THEN [m0 EXCEPT !["exit_code"] = kw["exit_code"]] ELSE m0
        m2 == IF pidKey \in DOMAIN kw
              THEN [m1 EXCEPT !["pid"] = kw[pidKey]] ELSE m1
    IN  [heap |-> [H EXCEPT !.metas[id] = m2], id |-> id]

\* ParallelCmdResult.__init__(command, content, metadata, **kwargs): the
\* content is stored as it is given.  The field raw of a result object is
\* not an attribute of the Python object: it remembers the content argument
\* the constructor was called with.
ParallelCmdResultInit(H, command, content, marg, kw) ==
    LET r == ResolveMetadata(H, marg)
    IN  IF r.raised # "" THEN [raised |-> r.raised, heap |-> H, rid |-> 0]
        ELSE LET o == ApplyOverrides(r.heap, r.id, kw, "pid")
                 obj == [kind |-> "par", command |-> command,
                         content |-> content, hidden |-> FALSE, meta |-> o.id,
                         raw |-> content]
             IN  [raised |-> "",
                  heap |-> [o.heap EXCEPT !.results = Append(@, obj)],
                  rid |-> Len(H.results) + 1]

\* CmdOutputObservation.__init__(content, command, observation, metadata,
\* hidden, **kwargs): content is truncated unless hidden
CmdOutputObservationInit(H, content, command, marg, hidden, kw) ==
    LET stored == IF ~hidden
                  THEN maybe_truncate(content, MAX_CMD_OUTPUT_SIZE)
                  ELSE content
        r == ResolveMetadata(H, marg)
    IN  IF r.raised # "" THEN [raised |-> r.raised, heap |-> H, rid |-> 0]
        ELSE LET o == ApplyOverrides(r.heap, r.id, kw, "command_id")
                 obj == [kind |-> "cmd", command |-> command,
                         content |-> stored, hidden |-> hidden, meta |-> o.id,
                         raw |-> content]
             IN  [raised |-> "",
                  heap |-> [o.heap EXCEPT !.results = Append(@, obj)],
                  rid |-> Len(H.results) + 1]

\* ParallelCmdResult.to_dict: metadata.model_dump() is the mapping of the
\* eight fields to the values stored
to_dict(H, rid) ==
    [command |-> H.results[rid].command,
     content |-> H.results[rid].content,
     metadata |-> H.metas[H.results[rid].meta]]

\* ParallelCmdResult.from_dict
from_dict(H, data) ==
    ParallelCmdResultInit(H, data.command, data.content,
                          ArgDict(data.metadata), NoKwargs)

\* an entry of the results argument: a ParallelCmdResult object or a mapping
EntryObj(rid) == [k |-> "obj", rid |-> rid, data |-> <<>>]
EntryDict(data) == [k |-> "dict", rid |-> 0, data |-> data]

\* faulty variant: each entry is put at the front of the list
RECURSIVE BuildResults_front(_, _, _)
BuildResults_front(H, entries, acc) ==
    IF entries = <<>> THEN [raised |-> "", heap |-> H, results |-> acc]
    ELSE IF Head(entries).k = "dict"
    THEN LET r == from_dict(H, Head(entries).data)
         IN  IF r.raised # ""
             THEN [raised |-> r.raised, heap |-> H, results |-> <<>>]
             ELSE BuildResults_front(r.heap, Tail(entries), <<r.rid>> \o acc)
    ELSE BuildResults_front(H, Tail(entries), <<Head(entries).rid>> \o acc)

\* the loop of ParallelCmdOutputObservation.__init__ from its current
\* entry on: a mapping goes through from_dict, an object is appended as it
\* is; acc is self.results so far
RECURSIVE BuildResults(_, _, _)
BuildResults(H, entries, acc) ==
    IF entries = <<>> THEN [raised |-> "", heap |-> H, results |-> acc]
    ELSE IF Head(entries).k = "dict"
    THEN LET r == from_dict(H, Head(entries).data)
         IN  IF r.raised # ""
             THEN [raised |-> r.raised, heap |-> H, results |-> <<>>]
             ELSE BuildResults(r.heap, Tail(entries), Append(acc, r.rid))
    ELSE BuildResults(H, Tail(entries), Append(acc, Head(entries).rid))

NoObs == [built |-> FALSE, content |-> <<>>, hidden |-> FALSE, results |-> <<>>]

\* ParallelCmdOutputObservation.__init__(content, results, observation, hidden)
ParallelCmdOutputObservationInit(H, content, entries, hidden) ==
    LET stored == IF ~hidden
                  THEN maybe_truncate(content, MAX_CMD_OUTPUT_SIZE)
                  ELSE content
        b == BuildResults(H, entries, <<>>)
    IN  [raised |-> b.raised,
         heap |-> IF b.raised # "" THEN H ELSE b.heap,
         obs |-> IF b.raised # "" THEN NoObs
                 ELSE [built |-> TRUE, content |-> stored, hidden |-> hidden,
                       results |-> b.results]]

\* exit_code property of a result
ExitCodeOf(H, rid) == H.metas[H.results[rid].meta]["exit_code"]

\* faulty variant: only a positive exit code is an error
ResultError_positive(H, rid) ==
    ExitCodeOf(H, rid).t = "int" /\ ExitCodeOf(H, rid).v > 0

\* error property of ParallelCmdResult and CmdOutputObservation:
\* self.exit_code != 0
ResultError(H, rid) == ~PyEq(ExitCodeOf(H, rid), PInt(0))

\* success property: not self.error
ResultSuccess(H, rid) == ~ResultError(H, rid)

\* any(...) and all(...) over a list, left to right
RECURSIVE py_any(_)
py_any(bs) == IF bs = <<>> THEN FALSE ELSE IF Head(bs) THEN TRUE ELSE py_any(Tail(bs))
RECURSIVE py_all(_)
py_all(bs) == IF bs = <<>> THEN TRUE ELSE IF ~Head(bs) THEN FALSE ELSE py_all(Tail(bs))

\* ParallelCmdOutputObservation.error: any(r.error for r in self.results)
BatchError(H, obs) ==
    py_any([i \in 1..Len(obs.results) |-> ResultError(H, obs.results[i])])

\* ParallelCmdOutputObservation.success: all(r.success for r in self.results)
BatchSuccess(H, obs) ==
    py_all([i \in 1..Len(obs.results) |-> ResultSuccess(H, obs.results[i])])

-----------------------------------------------------------------------------
(* Raw terminal text.  A text is a sequence of tokens [k, d]:              *)
(*   begin : the literal ###PS1JSON###   (CMD_OUTPUT_PS1_BEGIN.strip())    *)
(*   end   : the literal ###PS1END###    (CMD_OUTPUT_PS1_END.strip())      *)
(*   nl    : a newline                                                     *)
(*   junk  : the text  {bad  (no JSON text contains it)                    *)
(*   doc   : the JSON text of the value d (an object, array, string or     *)
(*           null: two of them side by side are not a JSON text)           *)

TokBegin == [k |-> "begin", d |-> PNone]
TokEnd == [k |-> "end", d |-> PNone]
TokNl == [k |-> "nl", d |-> PNone]
TokJunk == [k |-> "junk", d |-> PNone]
TokDoc(x) == [k |-> "doc", d |-> x]

\* str.strip() on a token text: leading and trailing newlines go
RECURSIVE LStripToks(_)
LStripToks(s) == IF s # <<>> /\ s[1].k = "nl" THEN LStripToks(Tail(s)) ELSE s
RECURSIVE RStripToks(_)
RStripToks(s) ==
    IF s # <<>> /\ s[Len(s)].k = "nl"
    THEN RStripToks(SubSeq(s, 1, Len(s) - 1)) ELSE s
StripToks(s) == RStripToks(LStripToks(s))

\* json.loads(s): whitespace around one JSON text; anything else (empty
\* text, junk, a sentinel literal, two JSON texts) is a JSONDecodeError.
json_loads(s) ==
    LET core == StripToks(s)
    IN  IF Len(core) = 1 /\ core[1].k = "doc"
        THEN [ok |-> TRUE, val |-> core[1].d]
        ELSE [ok |-> FALSE, val |-> PNone]

\* the next match of CMD_OUTPUT_METADATA_PS1_REGEX at or after pos:
\* ^###PS1JSON###(.*?)###PS1END### with DOTALL | MULTILINE.  ^ holds at the
\* start of the text and after a newline; .*? stops at the first END.
NoMatch == [b |-> 0, e |-> 0]
AtLineStart(text, b) == b = 1 \/ text[b - 1].k = "nl"
RegexSearch(text, pos) ==
    LET cands == {b \in pos..Len(text) :
                     /\ text[b].k = "begin"
                     /\ AtLineStart(text, b)
                     /\ \E e \in (b + 1)..Len(text) : text[e].k = "end"}
    IN  IF cands = {} THEN NoMatch
        ELSE LET b == CHOOSE x \in cands : \A y \in cands : x <= y
                 ends == {e \in (b + 1)..Len(text) : text[e].k = "end"}
             IN  [b |-> b, e |-> CHOOSE x \in ends : \A y \in ends : x <= y]

\* match.group(1)
Group1(text, m) == SubSeq(text, m.b + 1, m.e - 1)

\* faulty variant: a block that fails to parse ends the scan (break, not continue)
scan_step_break(text, pos, matches) ==
    LET m == RegexSearch(text, pos)
    IN  IF m = NoMatch
        THEN [done |-> TRUE, pos |-> pos, matches |-> matches]
        ELSE IF json_loads(StripToks(Group1(text, m))).ok
        THEN [done |-> FALSE, pos |-> m.e + 1, matches |-> Append(matches, m)]
        ELSE [done |-> TRUE, pos |-> m.e + 1, matches |-> matches]

\* one turn of the loop of matches_ps1_metadata: take the iterator's next
\* match; json.loads(match.group(1).strip()); append on success, warn and
\* continue on JSONDecodeError; when the iterator is exhausted, return.
scan_step(text, pos, matches) ==
    LET m == RegexSearch(text, pos)
    IN  IF m = NoMatch
        THEN [done |-> TRUE, pos |-> pos, matches |-> matches]
        ELSE IF json_loads(StripToks(Group1(text, m))).ok
        THEN [done |-> FALSE, pos |-> m.e + 1, matches |-> Append(matches, m)]
        ELSE [done |-> FALSE, pos |-> m.e + 1, matches |-> matches]

\* from_ps1_match(match): json.loads(match.group(1)), then the conversion
from_ps1_match(text, m) == from_ps1_match_value(json_loads(Group1(text, m)).val)

\* JSON values a metadata block may hold
DocPlain == PDict([pid |-> PStr(<<"7">>), exit_code |-> PStr(<<"0">>)])
DocNA == PDict([pid |-> PStr(<<"7">>), exit_code |-> PStr(<<"N", "/", "A">>)])
DocFloat == PDict([pid |-> PStr(<<"7">>), exit_code |-> PStr(<<"1", "2", ".", "0">>)])
DocInf == PDict([pid |-> PStr(<<"7">>), exit_code |-> PStr(<<"i", "n", "f">>)])
DocNull == PNone
DocList == PList(<<>>)
DocBadType == PDict([exit_code |-> PStr(<<"0">>), username |-> PInt(5)])
DocNumbers == PDict([pid |-> PInt(7), exit_code |-> PInt(1),
                     working_dir |-> PStr(<<"/", "w">>)])

ScanDocs == {DocPlain, DocNA, DocNull, DocBadType}

\* pieces a raw text is assembled from: single tokens, and whole blocks as
\* the prompt prints them
Segments ==
    {<<TokBegin>>, <<TokEnd>>, <<TokNl>>, <<TokJunk>>}
    \cup {<<TokDoc(DocPlain)>>}
    \cup {<<TokBegin, TokNl, TokDoc(x), TokNl, TokEnd, TokNl>> : x \in ScanDocs}
    \cup {<<TokBegin, TokNl, TokJunk, TokNl, TokEnd, TokNl>>}

RECURSIVE Flatten(_)
Flatten(ss) == IF ss = <<>> THEN <<>> ELSE Head(ss) \o Flatten(Tail(ss))

CodecIdle ==
    /\ c_pc = "idle"
    /\ c_text = <<>>
    /\ c_pos = 1
    /\ c_matches = <<>>
    /\ c_parsed = <<>>

CodecInit ==
    /\ c_pc = "scan"
    /\ c_text \in {Flatten(ss) : ss \in SeqsUpTo(Segments, MaxSegments)}
    /\ c_pos = 1
    /\ c_matches = <<>>
    /\ c_parsed = <<>>

\* one iteration of the for loop of matches_ps1_metadata (or its return)
ScanStep ==
    /\ c_pc = "scan"
    /\ LET r == scan_step(c_text, c_pos, c_matches)
       IN  /\ c_pos' = r.pos
           /\ c_matches' = r.matches
           /\ c_pc' = IF r.done THEN "parse" ELSE "scan"
    /\ UNCHANGED <<c_text, c_parsed>>
    /\ UNCHANGED <<truncVars, heapVars, orchVars>>

\* the caller applies from_ps1_match to the next returned match; an
\* exception ends the caller's loop
ParseStep ==
    /\ c_pc = "parse"
    /\ Len(c_parsed) < Len(c_matches)
    /\ LET r == from_ps1_match(c_text, c_matches[Len(c_parsed) + 1])
       IN  /\ c_parsed' = Append(c_parsed, r)
           /\ c_pc' = IF r.raised # "" THEN "raised"
                      ELSE IF Len(c_parsed) + 1 = Len(c_matches) THEN "done"
                      ELSE "parse"
    /\ UNCHANGED <<c_text, c_pos, c_matches>>
    /\ UNCHANGED <<truncVars, heapVars, orchVars>>

\* no match was returned: nothing to parse
ParseNone ==
    /\ c_pc = "parse"
    /\ c_matches = <<>>
    /\ c_pc' = "done"
    /\ UNCHANGED <<c_text, c_pos, c_matches, c_parsed>>
    /\ UNCHANGED <<truncVars, heapVars, orchVars>>

CodecNext == ScanStep \/ ParseStep \/ ParseNone


-----------------------------------------------------------------------------
(* Calls on the result records, made in any order by a caller.             *)

Heap == [metas |-> h_metas, results |-> h_results]

NoCall == [op |-> "none", raised |-> "", src |-> <<>>, out |-> <<>>]

HeapInit ==
    /\ h_metas = <<>>
    /\ h_results = <<>>
    /\ h_obs = NoObs
    /\ h_last = NoCall

\* arguments the calls are made with
Commands == {"ls", "pwd"}
CallerCommands == {"ls"}
Contents == {<<"o", "k">>}
BlockValues == {DocNA, DocFloat, DocInf, DocNull}
MetadataMappings ==
    {[exit_code |-> PStr(<<"0">>), pid |-> PInt(5)],
     [exit_code |-> PStr(<<"N", "/", "A">>)]}
ExitCodeOverrides == {PInt(0), PStr(<<"7">>)}
PidOverrides == {PInt(9)}

\* keyword arguments: none, an exit_code or a pid
KwargsSets(pidKey) ==
    {NoKwargs}
    \cup {[j \in {"exit_code"} |-> x] : x \in ExitCodeOverrides}
    \cup {[j \in {pidKey} |-> p] : p \in PidOverrides}

MetadataArgs ==
    {ArgNone} \cup {ArgDict(d) : d \in MetadataMappings}
    \cup {ArgObj(id) : id \in 1..Len(h_metas)}

Fits(H) == Len(H.metas) <= MaxMetas /\ Len(H.results) <= MaxResults

\* a plain record of a result: its fields and the fields of its metadata
ResultView(H, rid) ==
    [kind |-> H.results[rid].kind,
     command |-> H.results[rid].command,
     content |-> H.results[rid].content,
     metadata |-> H.metas[H.results[rid].meta]]

\* CmdOutputMetadata()
NewEmptyMetadata ==
    /\ Len(h_metas) < MaxMetas
    /\ h_metas' = Append(h_metas, DefaultMetadata)
    /\ h_last' = [op |-> "empty", raised |-> "", src |-> <<>>,
                  out |-> DefaultMetadata]
    /\ UNCHANGED <<h_results, h_obs>>
    /\ UNCHANGED <<truncVars, codecVars, orchVars>>

\* CmdOutputMetadata.from_ps1_match on a block holding the JSON value v
ParseBlock ==
    \E v \in BlockValues :
        LET r == from_ps1_match_value(v)
        IN  /\ Len(h_metas) < MaxMetas
            /\ h_metas' = IF r.raised = "" THEN Append(h_metas, r.meta)
                          ELSE h_metas
            /\ h_last' = [op |-> "parse", raised |-> r.raised, src |-> v,
                          out |-> r.meta]
            /\ UNCHANGED <<h_results, h_obs>>
            /\ UNCHANGED <<truncVars, codecVars, orchVars>>

\* ParallelCmdResult(command, content, metadata, **kwargs)
NewParallelCmdResult ==
    \E command \in CallerCommands, content \in Contents, marg \in MetadataArgs,
       kw \in KwargsSets("pid") :
        LET r == ParallelCmdResultInit(Heap, command, content, marg, kw)
        IN  /\ Fits(r.heap)
            /\ r.raised = "" => Len(h_results) < MaxResults
            /\ h_metas' = r.heap.metas
            /\ h_results' = r.heap.results
            /\ h_last' = [op |-> "par", raised |-> r.raised, src |-> <<>>,
                          out |-> <<>>]
            /\ UNCHANGED h_obs
            /\ UNCHANGED <<truncVars, codecVars, orchVars>>

\* CmdOutputObservation(content, command, metadata=..., hidden=..., **kwargs)
NewCmdOutputObservation ==
    \E command \in CallerCommands, content \in Contents, marg \in MetadataArgs,
       hidden \in BOOLEAN, kw \in KwargsSets("command_id") :
        LET r == CmdOutputObservationInit(Heap, content, command, marg,
                                          hidden, kw)
        IN  /\ Fits(r.heap)
            /\ h_metas' = r.heap.metas
            /\ h_results' = r.heap.results
            /\ h_last' = [op |-> "cmd", raised |-> r.raised, src |-> <<>>,
                          out |-> <<>>]
            /\ UNCHANGED h_obs
            /\ UNCHANGED <<truncVars, codecVars, orchVars>>

\* ParallelCmdResult.from_dict(r.to_dict()) for a ParallelCmdResult r; the
\* copy is returned to the caller (kept in h_last), r stays where it is
RoundTrip ==
    \E rid \in 1..Len(h_results) :
        /\ h_results[rid].kind = "par"
        /\ LET r == from_dict(Heap, to_dict(Heap, rid))
           IN  h_last' = [op |-> "roundtrip", raised |-> r.raised,
                          src |-> ResultView(Heap, rid),
                          out |-> IF r.raised = ""
                                  THEN ResultView(r.heap, r.rid) ELSE <<>>]
        /\ UNCHANGED <<h_metas, h_results, h_obs>>
        /\ UNCHANGED <<truncVars, codecVars, orchVars>>

\* ParallelCmdOutputObservation(content, results=[...]) over distinct results
\* that exist, in any order, handed over as the objects or as their mappings
NewBatch ==
    \E content \in Contents, hidden \in BOOLEAN, asDict \in BOOLEAN,
       rids \in SeqsUpTo(1..Len(h_results), MaxBatch) :
        LET entries == [i \in 1..Len(rids) |->
                           IF asDict THEN EntryDict(to_dict(Heap, rids[i]))
                           ELSE EntryObj(rids[i])]
            r == ParallelCmdOutputObservationInit(Heap, content, entries, hidden)
        IN  /\ \A i \in 1..Len(rids) : h_results[rids[i]].kind = "par"
            /\ \A i, j \in 1..Len(rids) : i # j => rids[i] # rids[j]
            /\ Fits(r.heap)
            /\ h_metas' = r.heap.metas
            /\ h_results' = r.heap.results
            /\ h_obs' = IF r.raised = "" THEN r.obs ELSE h_obs
            /\ h_last' = [op |-> "batch", raised |-> r.raised, src |-> <<>>,
                          out |-> <<>>]
            /\ UNCHANGED <<truncVars, codecVars, orchVars>>

MetaNext ==
    \/ NewEmptyMetadata
    \/ ParseBlock
    \/ NewParallelCmdResult
    \/ NewCmdOutputObservation
    \/ RoundTrip

BatchNext == NewParallelCmdResult \/ NewBatch

\* contents around the size limit: a, ..., a, b, ..., b of length n
TextOfLen(n) == [i \in 1..n |-> IF 2 * i <= n THEN "a" ELSE "b"]
\* a short content, one of exactly MAX_CMD_OUTPUT_SIZE characters and one of
\* one character more
SizedContents ==
    {<<"o", "k">>, TextOfLen(MAX_CMD_OUTPUT_SIZE),
     TextOfLen(MAX_CMD_OUTPUT_SIZE + 1)}

\* CmdOutputObservation(content, command, hidden=...) with a content of any
\* of these sizes
SizedCmdOutputObservation ==
    \E command \in CallerCommands, content \in SizedContents, hidden \in BOOLEAN :
        LET r == CmdOutputObservationInit(Heap, content, command, ArgNone,
                                          hidden, NoKwargs)
        IN  /\ Fits(r.heap)
            /\ h_metas' = r.heap.metas
            /\ h_results' = r.heap.results
            /\ h_last' = [op |-> "cmd", raised |-> r.raised, src |-> <<>>,
                          out |-> <<>>]
            /\ UNCHANGED h_obs
            /\ UNCHANGED <<truncVars, codecVars, orchVars>>

\* ParallelCmdResult(command, content) with a content of any of these sizes
SizedParallelCmdResult ==
    \E command \in CallerCommands, content \in SizedContents :
        LET r == ParallelCmdResultInit(Heap, command, content, ArgNone, NoKwargs)
        IN  /\ Fits(r.heap)
            /\ h_metas' = r.heap.metas
            /\ h_results' = r.heap.results
            /\ h_last' = [op |-> "par", raised |-> r.raised, src |-> <<>>,
                          out |-> <<>>]
            /\ UNCHANGED h_obs
            /\ UNCHANGED <<truncVars, codecVars, orchVars>>

SizedNext == SizedCmdOutputObservation \/ SizedParallelCmdResult \/ NewBatch

-----------------------------------------------------------------------------
(* The batch request: the tool call and ParallelCmdRunAction.              *)

\* ParallelCmdRunAction.max_concurrency: int = 10 (also the schema default)
DEFAULT_MAX_CONCURRENCY == 10

\* the arguments of a tool call: a mapping from parameter names to values
ToolArgs ==
    {[j \in {"commands", "security_risk"} |->
         IF j = "commands" THEN cs ELSE "LOW"] :
        cs \in SeqsUpTo(Commands, MaxCommands)}
    \cup
    {[j \in {"commands", "security_risk", "max_concurrency"} |->
         IF j = "commands" THEN cs
         ELSE IF j = "max_concurrency" THEN k ELSE "LOW"] :
        cs \in SeqsUpTo(Commands, MaxCommands), k \in 0..MaxConcurrencyArg}
    \cup
    {[j \in {"commands", "security_risk", "max_concurrency",
             "timeout_per_command"} |->
         IF j = "commands" THEN cs
         ELSE IF j = "max_concurrency" THEN k
         ELSE IF j = "timeout_per_command" THEN 5 ELSE "LOW"] :
        cs \in SeqsUpTo(Commands, MaxCommands), k \in 0..MaxConcurrencyArg}

\* the parameters schema of create_parallel_cmd_run_tool: commands (array of
\* string) and security_risk are required; max_concurrency is an integer;
\* the schema puts no minimum on max_concurrency and no minItems on commands
ToolSchemaAccepts(args) ==
    /\ {"commands", "security_risk"} \subseteq DOMAIN args
    /\ "max_concurrency" \in DOMAIN args => args["max_concurrency"] \in Int

NoAction ==
    [built |-> FALSE, commands |-> <<>>, max_concurrency |-> 0,
     timeout_per_command |-> 0, hidden |-> FALSE, runnable |-> FALSE]

\* ParallelCmdRunAction(commands=..., max_concurrency=..., ...): a dataclass
\* with no validation; fields not given take their defaults
\* (timeout_per_command None is written 0); runnable is a class constant
ParallelCmdRunActionInit(args) ==
    [built |-> TRUE,
     commands |-> args["commands"],
     max_concurrency |->
         IF "max_concurrency" \in DOMAIN args
         THEN args["max_concurrency"] ELSE DEFAULT_MAX_CONCURRENCY,
     timeout_per_command |->
         IF "timeout_per_command" \in DOMAIN args
         THEN args["timeout_per_command"] ELSE 0,
     hidden |-> FALSE,
     runnable |-> TRUE]

-----------------------------------------------------------------------------
(* The Parallel Orchestrator: a pool of max_concurrency workers over the   *)
(* commands of one action, one result slot per command.                    *)

OrchInit ==
    /\ o_pc = "idle"
    /\ o_action = NoAction
    /\ o_st = <<>>
    /\ o_slots = <<>>
    /\ o_fate = <<>>
    /\ o_admitted = <<>>
    /\ o_finished = <<>>

\* the batch configuration the orchestrator accepts
ValidConfig(a) == Len(a.commands) >= 1 /\ a.max_concurrency >= 1

Running(st) == {i \in 1..Len(st) : st[i] = "running"}
Queued(st) == {i \in 1..Len(st) : st[i] = "queued"}

\* faulty variant: the pool admits one command more than max_concurrency
CanAdmit_offbyone(st, k) == Queued(st) # {} /\ Cardinality(Running(st)) <= k

\* a worker is free and a command waits
CanAdmit(st, k) == Queued(st) # {} /\ Cardinality(Running(st)) < k

\* the command admitted next: the first one waiting, in input order
NextQueued(st) == CHOOSE i \in Queued(st) : \A j \in Queued(st) : i <= j

\* the content of a command's result: truncated unless the batch is hidden
ResultContent(a, raw) ==
    IF a.hidden THEN raw ELSE maybe_truncate(raw, MAX_CMD_OUTPUT_SIZE)

\* exit codes a command may end with
ExitCodes == {0, 1}
\* raw output of a command, and the text that explains a synthetic result
RawOutput == <<"o", "k">>
Explained == <<"!">>

\* the tool call arrives and the action is built
NewAction ==
    \E args \in ToolArgs :
        /\ o_pc = "idle"
        /\ ToolSchemaAccepts(args)
        /\ o_action' = ParallelCmdRunActionInit(args)
        /\ o_pc' = "new"
        /\ UNCHANGED <<o_st, o_slots, o_fate, o_admitted, o_finished>>
        /\ UNCHANGED <<truncVars, codecVars, heapVars>>

\* an invalid configuration is refused before anything is dispatched
Reject ==
    /\ o_pc = "new"
    /\ ~ValidConfig(o_action)
    /\ o_pc' = "rejected"
    /\ UNCHANGED <<o_action, o_st, o_slots, o_fate, o_admitted, o_finished>>
    /\ UNCHANGED <<truncVars, codecVars, heapVars>>

\* a valid batch is taken on: every command waits, every slot is empty
Dispatch ==
    /\ o_pc = "new"
    /\ ValidConfig(o_action)
    /\ o_pc' = "running"
    /\ o_st' = [i \in 1..Len(o_action.commands) |-> "queued"]
    /\ o_slots' = [i \in 1..Len(o_action.commands) |-> 0]
    /\ o_fate' = [i \in 1..Len(o_action.commands) |-> "none"]
    /\ UNCHANGED <<o_action, o_admitted, o_finished>>
    /\ UNCHANGED <<truncVars, codecVars, heapVars>>

\* a free worker takes the first waiting command and starts its subprocess
Admit ==
    /\ o_pc = "running"
    /\ CanAdmit(o_st, o_action.max_concurrency)
    /\ LET i == NextQueued(o_st)
       IN  /\ o_st' = [o_st EXCEPT ![i] = "running"]
           /\ o_admitted' = Append(o_admitted, i)
    /\ UNCHANGED <<o_pc, o_action, o_slots, o_fate, o_finished>>
    /\ UNCHANGED <<truncVars, codecVars, heapVars>>

\* worker i stores the result r of its command in slot i
Finish(i, fate, r) ==
    /\ h_metas' = r.heap.metas
    /\ h_results' = r.heap.results
    /\ o_slots' = [o_slots EXCEPT ![i] = r.rid]
    /\ o_st' = [o_st EXCEPT ![i] = "done"]
    /\ o_fate' = [o_fate EXCEPT ![i] = fate]
    /\ o_finished' = Append(o_finished, i)
    /\ UNCHANGED <<o_pc, o_action, h_obs, h_last>>
    /\ UNCHANGED <<truncVars, codecVars>>

\* a free worker takes the first waiting command and the subprocess layer
\* fails to start it: the slot gets a synthetic failed result (the exit
\* code stays the unknown -1)
StartFailure ==
    /\ o_pc = "running"
    /\ CanAdmit(o_st, o_action.max_concurrency)
    /\ LET i == NextQueued(o_st)
       IN  /\ o_admitted' = Append(o_admitted, i)
           /\ Finish(i, "startfail",
                     ParallelCmdResultInit(Heap, o_action.commands[i],
                         ResultContent(o_action, Explained), ArgNone, NoKwargs))

\* the subprocess of a running command ends with an exit code
Complete ==
    \E i \in Running(o_st), code \in ExitCodes :
        /\ o_pc = "running"
        /\ UNCHANGED o_admitted
        /\ Finish(i, "exited",
                  ParallelCmdResultInit(Heap, o_action.commands[i],
                      ResultContent(o_action, RawOutput), ArgNone,
                      [j \in {"exit_code"} |-> PInt(code)]))

\* a running command exceeds timeout_per_command and is terminated: its
\* slot gets a synthetic failed result; the other commands go on
Timeout ==
    \E i \in Running(o_st) :
        /\ o_pc = "running"
        /\ o_action.timeout_per_command > 0
        /\ UNCHANGED o_admitted
        /\ Finish(i, "timeout",
                  ParallelCmdResultInit(Heap, o_action.commands[i],
                      ResultContent(o_action, Explained), ArgNone, NoKwargs))

\* every command is done: the observation is built from the slots in index
\* order, handed over as objects or as their mappings
Aggregate ==
    \E asDict \in BOOLEAN :
        /\ o_pc = "running"
        /\ \A i \in 1..Len(o_st) : o_st[i] = "done"
        /\ LET entries == [i \in 1..Len(o_slots) |->
                              IF asDict THEN EntryDict(to_dict(Heap, o_slots[i]))
                              ELSE EntryObj(o_slots[i])]
               r == ParallelCmdOutputObservationInit(Heap, RawOutput, entries,
                                                     o_action.hidden)
           IN  /\ h_metas' = r.heap.metas
               /\ h_results' = r.heap.results
               /\ h_obs' = r.obs
               /\ o_pc' = IF r.raised = "" THEN "done" ELSE "raised"
        /\ UNCHANGED <<o_action, o_st, o_slots, o_fate, o_admitted, o_finished,
                       h_last>>
        /\ UNCHANGED <<truncVars, codecVars>>

OrchNext ==
    \/ NewAction
    \/ Reject
    \/ Dispatch
    \/ Admit
    \/ StartFailure
    \/ Complete
    \/ Timeout
    \/ Aggregate

-----------------------------------------------------------------------------
(* Specifications and properties of the truncator.                         *)

TruncSpecInit == TruncInit /\ CodecIdle /\ HeapInit /\ OrchInit
SpecTrunc == TruncSpecInit /\ [][Truncate]_vars

\* the first n and the last n characters of s, stated by position
FirstChars(s, n) == [i \in 1..Min(n, Len(s)) |-> s[i]]
LastChars(s, n) == [i \in 1..Min(n, Len(s)) |-> s[Len(s) - Min(n, Len(s)) + i]]

\* C7 as stated: identity up to max_size; otherwise first max_size/2
\* characters, the marker, the last max_size/2 characters, and a length of
\* exactly max_size + len(marker).
C7_AsStated ==
    t_pc = "done" =>
        IF Len(t_content) <= t_max
        THEN t_out = t_content
        ELSE /\ t_out = FirstChars(t_content, t_max \div 2) \o TRUNCATION_MARKER
                            \o LastChars(t_content, t_max \div 2)
             /\ Len(t_out) = t_max + Len(TRUNCATION_MARKER)

-----------------------------------------------------------------------------
(* Specification and properties of the codec.                              *)

CodecSpecInit == CodecInit /\ TruncIdle /\ HeapInit /\ OrchInit
SpecCodec == CodecSpecInit /\ [][CodecNext]_vars

\* The sentinel-delimited regions of a text, stated by position: a BEGIN
\* literal at a line start, up to the first END literal after it, where the
\* BEGIN does not lie inside an earlier region (every earlier line-start
\* BEGIN has an END before this one).
IsBeginAt(text, b) == text[b].k = "begin" /\ AtLineStart(text, b)
Regions(text) ==
    {r \in [b : 1..Len(text), e : 1..Len(text)] :
        /\ r.b < r.e
        /\ IsBeginAt(text, r.b)
        /\ text[r.e].k = "end"
        /\ \A i \in (r.b + 1)..(r.e - 1) : text[i].k # "end"
        /\ \A b2 \in 1..(r.b - 1) :
              IsBeginAt(text, b2) =>
                  \E i \in (b2 + 1)..(r.b - 1) : text[i].k = "end"}

\* a body that is one JSON text with only whitespace around it
BodyIsJson(body) ==
    \E i \in 1..Len(body) :
        /\ body[i].k = "doc"
        /\ \A j \in 1..Len(body) : j # i => body[j].k = "nl"

ScanReturned == c_pc \in {"parse", "done", "raised"}

\* C4: matches_ps1_metadata returns exactly the sentinel-delimited regions
\* whose body is valid JSON, in text order; a malformed region is left out
\* and the regions after it are still returned.
C4_FindBlocks ==
    ScanReturned =>
        /\ \A i, j \in 1..Len(c_matches) : i < j => c_matches[i].e < c_matches[j].b
        /\ {c_matches[i] : i \in 1..Len(c_matches)}
               = {r \in Regions(c_text) : BodyIsJson(Group1(c_text, r))}

\* two valid blocks around a malformed one gave exactly two matches
C4_Witness ==
    /\ ScanReturned
    /\ Len(c_matches) = 2
    /\ \E r \in Regions(c_text) :
          /\ ~BodyIsJson(Group1(c_text, r))
          /\ c_matches[1].e < r.b
          /\ r.e < c_matches[2].b

\* C5 as stated: neither matches_ps1_metadata nor from_ps1_match, applied to
\* a match that matches_ps1_metadata returned, ever raises.
C5_NeverThrows ==
    /\ c_pc # "raised"
    /\ \A i \in 1..Len(c_parsed) : c_parsed[i].raised = ""

-----------------------------------------------------------------------------
(* Specification and properties of the result records.                     *)

MetaSpecInit == HeapInit /\ TruncIdle /\ CodecIdle /\ OrchInit
SpecMeta == MetaSpecInit /\ [][MetaNext]_vars

BatchSpecInit == HeapInit /\ TruncIdle /\ CodecIdle /\ OrchInit
SpecBatch == BatchSpecInit /\ [][BatchNext]_vars

\* the integer a numeric text stands for under float-then-int conversion
FloatThenInt(fl) == IF fl.neg THEN -fl.int ELSE fl.int

\* C6 as stated: after every construction path exit_code and pid of every
\* CmdOutputMetadata are integers; a parsed block whose pid or exit_code
\* cannot be converted by float-then-int gets -1 for it, and a numeric
\* text gets its integer value.
C6_AlwaysIntegers ==
    /\ \A id \in 1..Len(h_metas) :
          IsInt(h_metas[id]["exit_code"]) /\ IsInt(h_metas[id]["pid"])
    /\ (h_last.op = "parse" /\ h_last.src.t = "dict") =>
          \A f \in IntFields \cap DOMAIN h_last.src.v :
              LET fl == py_float(py_str(h_last.src.v[f]))
              IN  IF fl.kind = "fin"
                  THEN h_last.raised = "" =>
                           PyEq(h_last.out[f], PInt(FloatThenInt(fl)))
                  ELSE /\ h_last.raised = ""
                       /\ PyEq(h_last.out[f], PInt(-1))

\* C8 as stated: from_dict(to_dict(r)) has r's command, content and value
\* of every metadata field, for every ParallelCmdResult r.
C8_RoundTrip ==
    h_last.op = "roundtrip" =>
        /\ h_last.raised = ""
        /\ h_last.out.command = h_last.src.command
        /\ h_last.out.content = h_last.src.content
        /\ \A f \in MetaFields :
              PyEq(h_last.out.metadata[f], h_last.src.metadata[f])

\* C10 as stated: no call changes the command, the content or a metadata
\* field of a result that exists.
C10_NeverMutated ==
    [][\A rid \in 1..Len(h_results) :
          /\ h_results'[rid].command = h_results[rid].command
          /\ h_results'[rid].content = h_results[rid].content
          /\ \A f \in MetaFields :
                PyEq(h_metas'[h_results'[rid].meta][f],
                     h_metas[h_results[rid].meta][f])]_vars

\* C9: a result errs exactly when its exit_code is not 0 (so -1 errs) and
\* succeeds exactly when it does not err; a batch errs exactly when a
\* member errs and succeeds exactly when every member succeeds, so its
\* success is the negation of its error, also with no results.
C9_ErrorSuccess ==
    /\ \A rid \in 1..Len(h_results) :
          LET ec == ExitCodeOf(Heap, rid)
          IN  /\ ResultError(Heap, rid) <=> ~(ec.t = "int" /\ ec.v = 0)
              /\ ResultSuccess(Heap, rid) <=> ~ResultError(Heap, rid)
              /\ (ec.t = "int" /\ ec.v = -1) => ResultError(Heap, rid)
    /\ h_obs.built =>
          LET n == Len(h_obs.results)
              ec(i) == ExitCodeOf(Heap, h_obs.results[i])
              errs(i) == ~(ec(i).t = "int" /\ ec(i).v = 0)
          IN  /\ BatchError(Heap, h_obs) <=> \E i \in 1..n : errs(i)
              /\ BatchSuccess(Heap, h_obs) <=> \A i \in 1..n : ~errs(i)
              /\ BatchSuccess(Heap, h_obs) <=> ~BatchError(Heap, h_obs)
              /\ n = 0 => (BatchSuccess(Heap, h_obs) /\ ~BatchError(Heap, h_obs))

\* a batch of a succeeding result and one with the default exit code -1
C9_Witness ==
    /\ h_obs.built
    /\ Len(h_obs.results) = 2
    /\ ExitCodeOf(Heap, h_obs.results[1]) = PInt(0)
    /\ ExitCodeOf(Heap, h_obs.results[2]) = PInt(-1)
    /\ BatchError(Heap, h_obs)
    /\ ~BatchSuccess(Heap, h_obs)

-----------------------------------------------------------------------------
(* Specification and properties of the orchestrator.                       *)

OrchSpecInit == OrchInit /\ HeapInit /\ TruncIdle /\ CodecIdle
SpecOrch == OrchSpecInit /\ [][OrchNext]_vars

\* C1: the observation of a batch of N commands has N results, result i
\* carries command i whatever the order of completion, and a command that
\* timed out or failed to start has a result with a non-zero exit code.
C1_OrderedResults ==
    o_pc = "done" =>
        /\ h_obs.built
        /\ Len(h_obs.results) = Len(o_action.commands)
        /\ Len(o_action.commands) >= 1
        /\ \A i \in 1..Len(h_obs.results) :
              /\ h_results[h_obs.results[i]].command = o_action.commands[i]
              /\ o_fate[i] \in {"timeout", "startfail"} =>
                    ~PyEq(ExitCodeOf(Heap, h_obs.results[i]), PInt(0))

\* three commands, finished out of input order, one timed out, one failed
\* to start, and the observation is built
C1_Witness ==
    /\ o_pc = "done"
    /\ Len(o_action.commands) = 3
    /\ o_action.commands[1] # o_action.commands[2]
    /\ o_finished[1] # 1
    /\ \E i \in 1..3 : o_fate[i] = "timeout"
    /\ \E i \in 1..3 : o_fate[i] = "startfail"

\* C2: never more than max_concurrency commands run at once, and commands
\* are admitted in input order (the j-th admission is command j), a waiting
\* command only into a worker that is free.
C2_BoundedFifo ==
    o_pc \in {"running", "done"} =>
        /\ o_action.max_concurrency >= 1
        /\ Cardinality(Running(o_st)) <= o_action.max_concurrency
        /\ \A j \in 1..Len(o_admitted) : o_admitted[j] = j
        /\ \A i \in 1..Len(o_st) :
              o_st[i] # "queued" => \E j \in 1..Len(o_admitted) : o_admitted[j] = i
        /\ Len(o_admitted) - Len(o_finished) = Cardinality(Running(o_st))

\* the pool is full and a command waits, after one has already finished
C2_Witness ==
    /\ o_pc = "running"
    /\ Len(o_action.commands) = 3
    /\ o_action.max_concurrency = 1
    /\ Cardinality(Running(o_st)) = 1
    /\ Queued(o_st) = {3}
    /\ o_finished = <<1>>

\* C3 as stated: a request with an empty command list or max_concurrency
\* below 1 is never accepted as runnable, is refused before dispatch, and
\* none of its commands is started.
C3_InvalidRejected ==
    /\ (o_action.built /\ o_action.runnable) => ValidConfig(o_action)
    /\ (o_action.built /\ ~ValidConfig(o_action)) =>
          /\ o_pc \in {"new", "rejected"}
          /\ o_admitted = <<>>
          /\ o_st = <<>>

-----------------------------------------------------------------------------
(* Specification and properties of the stored content.                     *)

SizedSpecInit == HeapInit /\ TruncIdle /\ CodecIdle /\ OrchInit
SpecSized == SizedSpecInit /\ [][SizedNext]_vars

\* what the Output Truncator makes of a raw content under the size limit
Truncated(raw) == maybe_truncate(raw, MAX_CMD_OUTPUT_SIZE)

\* C11 as stated: the content stored in a single-command result that is not
\* hidden, and in every per-command result of a batch that is not hidden, is
\* the truncation of the raw content it was given; in a hidden result it is
\* the raw content unchanged.
C11_TruncatedOnce ==
    /\ \A rid \in 1..Len(h_results) :
          h_results[rid].kind = "cmd" =>
              h_results[rid].content =
                  IF h_results[rid].hidden THEN h_results[rid].raw
                  ELSE Truncated(h_results[rid].raw)
    /\ h_obs.built =>
          \A i \in 1..Len(h_obs.results) :
              LET r == h_results[h_obs.results[i]]
              IN  r.content = IF h_obs.hidden THEN r.raw ELSE Truncated(r.raw)

=============================================================================
